---- MODULE Spec2Model ----
(***************************************************************************)
(* A model of the session/event notification code of winytils:             *)
(*   - workstation_events.py : Event, WorkstationEventsListener,           *)
(*                             WorkstationState                            *)
(*   - workstation.py        : FreezeDetector                              *)
(*   - machine_state_watcher.py / pc_state.py : MachineStateScanner,       *)
(*                             watch_lock_unlock                           *)
(* Three families of specifications share this module; each keeps the      *)
(* variables of the other families at their initial values.                *)
(***************************************************************************)
EXTENDS Integers, Sequences, FiniteSets, TLC

VARIABLES
    \* ---- WorkstationEventsListener / WorkstationState ----
    event_handlers,   \* self.event_handlers: defaultdict(list), key -> list of handlers
    window_handle,    \* self._window_handle: 0 (False) until CreateWindow returns
    windowAlive,      \* the OS window behind window_handle exists
    pc,               \* position of the pump thread
    cur,              \* the message _window_procedure is handling
    tier,             \* which of the four for-loops (lines 127..134) is running
    idx,              \* position of that loop in its list (1-based)
    nested,           \* the running _window_procedure was entered from DestroyWindow
    quit,             \* PostQuitMessage has been called on the pump thread
    closePosted,      \* a WM_CLOSE posted by stop() waits in the window's queue
    locked,           \* WorkstationState.locked
    registered,       \* WTSRegisterSessionNotification has succeeded for the window
    spawned,          \* pump threads Thread.start() has spawned
    inbox,            \* broadcasts posted to the window's queue, oldest first
    \* ghosts of the listener
    calls,            \* handler invocations made for cur, in order
    regLog,           \* every on() call so far, in order
    regDuringDispatch,\* on() was called while cur was being dispatched
    luHist,           \* the last two lock/unlock broadcasts received, latest last
    startCalls,       \* start() calls made so far
    startError,       \* what the last start() call raised: "none", or RuntimeError
                      \* for a thread that is "alive" or has "finished"
    stoppedStopFault, \* how a stop() call made after the pump thread's exit went wrong
    nPosts,           \* broadcasts posted to the queue so far
    curSeq,           \* the number of the queued broadcast being dispatched (0: none)
    invLog,           \* per handler invocation for a queued broadcast, its number
    spin,             \* parity of the iterations the running for-loop has made over
                      \* entries the model no longer adds to the list
    earlyStop,        \* stop() was called after start() and before the window existed
    \* ---- FreezeDetector ----
    fd_frozen,        \* self._frozen
    fd_stop,          \* self._stop
    fd_pc,            \* position of the watchdog thread in run()
    gap,              \* time.time() - last_time, in sleeps of 0.1 s (saturating)
    c_pc,             \* per caller thread: position inside was_frozen()
    c_tmp,            \* per caller thread: the local _frozen of was_frozen()
    stop_pc,          \* position of the thread that calls stop()
    \* ghosts of the freeze detector
    unreported,       \* a gap was recorded and no call has returned True since
    fresh,            \* per caller: its running call began after the last recording,
                      \* while no such call was running
    episode,          \* results of those calls, in order (the first two)
    reported2,        \* a call returned True although no unreported gap existed
    recorded,         \* the watchdog has recorded a gap at least once
    checkedGap,       \* the gap the watchdog compared last at line 34 (-1: none yet)
    recsRun,          \* gaps recorded in a row with no was_frozen() call begun
                      \* in between (counted up to two)
    callSince,        \* a was_frozen() call has begun since the last recording
    \* ---- MachineStateScanner and watch_lock_unlock ----
    ms_locked,        \* ms.locked
    ms_unlocked,      \* ms.unlocked
    on_lock_func,     \* ms.on_lock_func, with on_lock_args and on_lock_kwargs
    on_lock_args,
    on_lock_kwargs,
    on_unlock_func,   \* ms.on_unlock_func, with on_unlock_args and on_unlock_kwargs
    on_unlock_args,
    on_unlock_kwargs,
    h_pc,             \* position of the scanner thread (run, handler)
    w_pc,             \* position of watch_lock_unlock
    already_locked,   \* locals of watch_lock_unlock
    already_unlocked,
    is_stopped,       \* what thread.is_stopped() returns
    \* ghosts of the scanner
    nEvents,          \* session events handled so far
    lockFlips,        \* times handler() changed ms.locked from False to True
    unlockFlips,      \* times handler() changed ms.unlocked from False to True
    h_pre,            \* the flag handler() is setting, as it was before
    evCalls,          \* the callbacks handler() invoked for the last event
    evDup,            \* handler() invoked a callback although the flag was already set
    pollLockCalls,    \* invocations of on_lock by watch_lock_unlock
    pollUnlockCalls,  \* invocations of on_unlock by watch_lock_unlock
    lastFired,        \* the callback watch_lock_unlock invoked last
    seen,             \* the state the polling loop observed last
    firedSince,       \* callbacks invoked since seen last changed
    pollsSince,       \* iterations that observed seen since it last changed
    iterClean,        \* no event was being handled when the running iteration began,
                      \* nor since
    polledAfter,      \* an iteration has begun and ended since the last event
    cb_raising,       \* which of the callbacks given to watch_lock_unlock raise
    w_exc,            \* the exception that left the while-loop ("none": none yet)
    \* ---- WorkstationMonitor, and the unguarded scanner of pc_state.py ----
    nChanges,         \* session-change broadcasts the window procedure has received
    wm_fault,         \* what the last window procedure call raised ("none": nothing)
    guarded,          \* the scanner is machine_state_watcher.MachineStateScanner,
                      \* whose methods take _t_lock; FALSE: the one of pc_state.py
    reg_r,            \* per callback slot: the registration on_lock() / on_unlock()
                      \* is making, or made last
    reg_n             \* per slot: assignments the running call has made (0: no call)

\* lifecycle and queue variables, apart from curSeq and invLog
pOther == <<registered, spawned, inbox, startCalls, startError, stoppedStopFault,
            nPosts>>

pvars == <<pOther, curSeq, invLog>>

lvars == <<event_handlers, window_handle, windowAlive, pc, cur, tier, idx, nested,
           quit, closePosted, locked, calls, regLog, regDuringDispatch, luHist, pvars,
           spin, earlyStop>>

\* ghosts of the watchdog's comparisons
fghost == <<checkedGap, recsRun, callSince>>

fvars == <<fd_frozen, fd_stop, fd_pc, gap, c_pc, c_tmp, unreported, fresh, episode,
           reported2, recorded, stop_pc, fghost>>

\* what the monitor's window procedure has received and raised
mon == <<nChanges, wm_fault>>

\* the class the scanner is an instance of, and the on_lock() / on_unlock()
\* calls that are between two of their assignments
regx == <<guarded, reg_r, reg_n>>

msvars == <<ms_locked, ms_unlocked, on_lock_func, on_lock_args, on_lock_kwargs,
            on_unlock_func, on_unlock_args, on_unlock_kwargs, h_pc, nEvents,
            lockFlips, unlockFlips, h_pre, evCalls, evDup, mon, regx>>

\* the callbacks' behaviour and the exception that ended the loop
wx == <<cb_raising, w_exc>>

wvars == <<w_pc, already_locked, already_unlocked, is_stopped, pollLockCalls,
           pollUnlockCalls, lastFired, seen, firedSince, pollsSince, iterClean,
           polledAfter, wx>>

\* the variables of the other families
notListener == <<fvars, msvars, wvars>>
notFreeze == <<lvars, msvars, wvars>>
notScanner == <<lvars, fvars>>

vars == <<lvars, fvars, msvars, wvars>>

-----------------------------------------------------------------------------
(* Bounds of the model *)

\* on() calls made by the user of a bare listener after its construction
MaxRegs == 2

-----------------------------------------------------------------------------
(* Program constants *)

None == -1                      \* Python's None in a field of an Event
WM_WTSSESSION_CHANGE == 689     \* 0x2B1
WTS_SESSION_LOCK == 7
WTS_SESSION_UNLOCK == 8
WTS_SESSION_LOGON == 5
WM_DEVICECHANGE == 537          \* 0x219
DBT_DEVNODES_CHANGED == 7
WM_CLOSE == 16                  \* win32con.WM_CLOSE
WM_DESTROY == 2                 \* win32con.WM_DESTROY
HWND == 1                       \* the handle CreateWindow returns

-----------------------------------------------------------------------------
(* Event model: workstation_events.py lines 28..75 *)

Event(msg, wparam, lparam) == [msg |-> msg, wparam |-> wparam, lparam |-> lparam]

AnyEvent == Event(None, None, None)
\* a LockEvent whose subcode is left unset
LockEventAnySubcode == Event(WM_WTSSESSION_CHANGE, None, None)

LockEvent == Event(WM_WTSSESSION_CHANGE, WTS_SESSION_LOCK, None)
UnlockEvent == Event(WM_WTSSESSION_CHANGE, WTS_SESSION_UNLOCK, None)
DeviceChangeEvent == Event(WM_DEVICECHANGE, DBT_DEVNODES_CHANGED, None)

\* dataclasses.astuple: the registry is keyed by the tuple of the three fields
astuple(e) == <<e.msg, e.wparam, e.lparam>>

\* cur when the pump thread is not inside _window_procedure
NoMessage == Event(None, None, None)


-----------------------------------------------------------------------------
(* WorkstationEventsListener: registry *)

\* defaultdict(list) right after __init__ (line 83)
EmptyDict == [k \in {} |-> <<>>]

\* defaultdict.__getitem__: a missing key is inserted with an empty list
Lookup(d, k) == IF k \in DOMAIN d THEN d ELSE d @@ (k :> <<>>)

\* Registered with insert(0, handler) in place of append(handler)
RegisteredAtFront(d, event, entry) ==
    LET k == astuple(event)
    IN  [Lookup(d, k) EXCEPT ![k] = <<entry>> \o @]

\* on(), line 147: self.event_handlers[astuple(event)].append(handler).
\* An entry is the callable h tagged with the number n of its on() call.
Registered(d, event, entry) ==
    LET k == astuple(event)
    IN  [Lookup(d, k) EXCEPT ![k] = Append(@, entry)]

\* TierKey with the wildcard of the second loop forgotten
TierKeyNoWildcard(msg, wparam, lparam, t) ==
    CASE t = 1 -> astuple(Event(msg, wparam, lparam))
      [] t = 2 -> astuple(Event(msg, wparam, lparam))
      [] t = 3 -> astuple(Event(msg, None, None))
      [] OTHER -> astuple(AnyEvent)

\* TierKey with the second loop's wildcard put in the middle field
TierKeyMiddleWildcard(msg, wparam, lparam, t) ==
    CASE t = 1 -> astuple(Event(msg, wparam, lparam))
      [] t = 2 -> astuple(Event(msg, None, lparam))
      [] t = 3 -> astuple(Event(msg, None, None))
      [] OTHER -> astuple(AnyEvent)

\* The keys of the four for-loops of _window_procedure, lines 127, 129, 131, 133
TierKey(msg, wparam, lparam, t) ==
    CASE t = 1 -> astuple(Event(msg, wparam, lparam))
      [] t = 2 -> astuple(Event(msg, wparam, None))
      [] t = 3 -> astuple(Event(msg, None, None))
      [] OTHER -> astuple(AnyEvent)

CurKey(t) == TierKey(cur.msg, cur.wparam, cur.lparam, t)

\* The registry built by a sequence of on() calls on a fresh listener
RECURSIVE RegistryOf(_)
RegistryOf(log) ==
    IF log = <<>> THEN EmptyDict
    ELSE LET n == Len(log)
         IN  Registered(RegistryOf(SubSeq(log, 1, n - 1)), log[n].event,
                        [h |-> log[n].h, n |-> n])

-----------------------------------------------------------------------------
(* Handlers.  "setLocked" and "setUnlocked" are the two lambdas of          *)
(* WorkstationState.__init__; "h1" is a user callable that returns, "bad"   *)
(* a user callable that raises, "again" a user callable that registers     *)
(* itself for the event it was called with: listener.on(event, again).     *)

UserHandlers == {"h1", "bad"}

HandlerRaises(h) == h = "bad"

HandlerRegisters(h) == h = "again"

\* the value of WorkstationState.locked after handler h has run
LockedAfter(h, l) ==
    CASE h = "setLocked" -> TRUE      \* line 157: setattr(self, "locked", True)
      [] h = "setUnlocked" -> FALSE   \* line 158: setattr(self, "locked", False)
      [] OTHER -> l

\* an is_locked that answers False once the listener thread has ended
is_locked_while_running == locked /\ pc # "exited"

\* WorkstationState.is_locked, line 163
is_locked == locked

-----------------------------------------------------------------------------
(* Inputs *)

\* Patterns a user registers with on(): the four canonical tiers of a lock
\* of session 1
RegPatterns ==
    { Event(WM_WTSSESSION_CHANGE, WTS_SESSION_LOCK, 1),
      LockEvent,
      Event(WM_WTSSESSION_CHANGE, None, None),
      AnyEvent }

\* A recorder registered under all four tiers, least specific first
RecorderSetup ==
    << [event |-> AnyEvent, h |-> "h1", by |-> "setup"],
       [event |-> Event(WM_WTSSESSION_CHANGE, None, None), h |-> "h1", by |-> "setup"],
       [event |-> LockEvent, h |-> "h1", by |-> "setup"],
       [event |-> Event(WM_WTSSESSION_CHANGE, WTS_SESSION_LOCK, 1), h |-> "h1", by |-> "setup"] >>

\* WorkstationState.__init__, lines 157..158
WorkstationStateSetup ==
    << [event |-> LockEvent, h |-> "setLocked", by |-> "WorkstationState"],
       [event |-> UnlockEvent, h |-> "setUnlocked", by |-> "WorkstationState"] >>

\* Broadcasts the OS delivers to a bare listener
Broadcasts ==
    { Event(WM_WTSSESSION_CHANGE, WTS_SESSION_LOCK, 1),
      Event(WM_WTSSESSION_CHANGE, WTS_SESSION_LOCK, 2),
      Event(WM_WTSSESSION_CHANGE, WTS_SESSION_UNLOCK, 1),
      Event(WM_DEVICECHANGE, DBT_DEVNODES_CHANGED, 1) }

\* Broadcasts the OS delivers to the listener of a WorkstationState
SessionIds == {1, 2}
WsBroadcasts ==
    { Event(WM_WTSSESSION_CHANGE, w, s) : w \in {WTS_SESSION_LOCK, WTS_SESSION_UNLOCK},
                                          s \in SessionIds }
    \cup { Event(WM_DEVICECHANGE, DBT_DEVNODES_CHANGED, 0),
           Event(WM_WTSSESSION_CHANGE, WTS_SESSION_LOGON, 1) }

UserRegs == Len(SelectSeq(regLog, LAMBDA r : r.by = "user"))


-----------------------------------------------------------------------------
(* WorkstationEventsListener: operations *)

\* on(event, handler), lines 142..147, called by the user of a bare listener
on(event, handler) ==
    /\ UserRegs < MaxRegs
    /\ regLog' = Append(regLog, [event |-> event, h |-> handler, by |-> "user"])
    /\ event_handlers' = Registered(event_handlers, event,
                                    [h |-> handler, n |-> Len(regLog) + 1])
    /\ regDuringDispatch' = (regDuringDispatch \/ pc \in {"dispatch", "raised", "post"})
    /\ UNCHANGED <<window_handle, windowAlive, pc, cur, tier, idx, nested, quit,
                   closePosted, locked, calls, luHist>>
    /\ UNCHANGED pvars
    /\ UNCHANGED <<spin, earlyStop>>
    /\ UNCHANGED notListener

\* start() calls made on one listener
MaxStarts == 2

\* Thread.start() spawning a thread whatever the state of the object
CanStartAlways(p) == TRUE

\* threading.Thread.start() raises RuntimeError unless the thread object has
\* never been started (the listener inherits it, line 78)
CanStart(p) == p = "created"

\* threading.Thread.start(): run() begins on the new thread, or RuntimeError
start ==
    /\ startCalls < MaxStarts
    /\ startCalls' = startCalls + 1
    /\ IF CanStart(pc)
       THEN /\ pc' = "run"
            /\ spawned' = spawned + 1
            /\ startError' = "none"
       ELSE /\ startError' = IF pc \in {"exited", "failed"} THEN "finished" ELSE "alive"
            /\ UNCHANGED <<pc, spawned>>
    /\ UNCHANGED <<event_handlers, window_handle, windowAlive, cur, tier, idx, nested,
                   quit, closePosted, locked, calls, regLog, regDuringDispatch, luHist>>
    /\ UNCHANGED <<registered, inbox, stoppedStopFault, nPosts, curSeq, invLog>>
    /\ UNCHANGED <<spin, earlyStop>>
    /\ UNCHANGED notListener

\* run(), lines 87..114: the window is created and the session notifications
\* registered; the thread then blocks in PumpMessages (line 117)
run ==
    /\ pc = "run"
    /\ window_handle' = HWND
    /\ windowAlive' = TRUE
    /\ registered' = TRUE
    /\ pc' = "pump"
    /\ UNCHANGED <<event_handlers, cur, tier, idx, nested, quit, closePosted, locked,
                   calls, regLog, regDuringDispatch, luHist>>
    /\ UNCHANGED <<spawned, inbox, startCalls, startError, stoppedStopFault, nPosts,
                   curSeq, invLog>>
    /\ UNCHANGED <<spin, earlyStop>>
    /\ UNCHANGED notListener

\* what can fail in run(): CreateWindow (line 95) or
\* WTSRegisterSessionNotification (line 114)
RunFailures == {"CreateWindow", "Register"}

\* run() when one of its OS calls raises: the exception ends the pump thread
\* (nothing in run() or in start() catches it), and the OS destroys the
\* window of the dead thread
runFails(step) ==
    /\ pc = "run"
    /\ window_handle' = IF step = "Register" THEN HWND ELSE window_handle
    /\ pc' = "failed"
    /\ UNCHANGED <<event_handlers, windowAlive, cur, tier, idx, nested, quit,
                   closePosted, locked, calls, regLog, regDuringDispatch, luHist>>
    /\ UNCHANGED pvars
    /\ UNCHANGED <<spin, earlyStop>>
    /\ UNCHANGED notListener

\* stop(), line 123: PostMessage(self._window_handle, WM_CLOSE, 0, 0).  The
\* message reaches the pump thread's queue only if the handle names a live window.
\* For the handle of a destroyed window PostMessage fails and win32gui raises,
\* unless the OS has given the handle to another window, which then gets the
\* WM_CLOSE.  For the handle 0 (False) the message goes to the caller's own
\* thread queue.
StopFaults == {"raised", "stray"}

stop ==
    /\ closePosted' = IF window_handle = HWND /\ windowAlive THEN TRUE ELSE closePosted
    /\ IF window_handle = HWND /\ ~windowAlive /\ pc = "exited"
       THEN stoppedStopFault' \in StopFaults
       ELSE UNCHANGED stoppedStopFault
    /\ earlyStop' = (earlyStop \/ (pc = "run" /\ window_handle # HWND))
    /\ UNCHANGED <<event_handlers, window_handle, windowAlive, pc, cur, tier, idx,
                   nested, quit, locked, calls, regLog, regDuringDispatch, luHist>>
    /\ UNCHANGED <<registered, spawned, inbox, startCalls, startError, nPosts, curSeq,
                   invLog>>
    /\ UNCHANGED spin
    /\ UNCHANGED notListener

\* _window_procedure is entered for message e: the first for-loop (line 127)
\* looks its key up
Enter(e) ==
    /\ cur' = e
    /\ tier' = 1
    /\ idx' = 1
    /\ calls' = <<>>
    /\ regDuringDispatch' = FALSE
    /\ event_handlers' = Lookup(event_handlers, TierKey(e.msg, e.wparam, e.lparam, 1))
    /\ pc' = "dispatch"

\* _window_procedure has returned, or its exception has been reported by the
\* caller of the window procedure: the thread is back in PumpMessages
BackToPump ==
    /\ pc' = "pump"
    /\ cur' = NoMessage
    /\ tier' = 0
    /\ idx' = 0
    /\ nested' = FALSE
    /\ calls' = <<>>
    /\ regDuringDispatch' = FALSE
    /\ curSeq' = 0

\* PumpMessages delivers broadcast e to the window procedure
Deliver(e) ==
    /\ pc = "pump"
    /\ windowAlive
    /\ ~quit
    /\ Enter(e)
    /\ UNCHANGED <<window_handle, windowAlive, nested, quit, closePosted, locked, regLog>>
    /\ UNCHANGED pvars
    /\ UNCHANGED <<spin, earlyStop>>
    /\ UNCHANGED notListener

\* a broadcast reaches a bare listener
Receive(e) ==
    /\ Deliver(e)
    /\ UNCHANGED luHist

\* a broadcast reaches the listener of a WorkstationState
WsReceive(e) ==
    /\ Deliver(e)
    /\ luHist' = IF e.msg = WM_WTSSESSION_CHANGE /\ e.wparam = WTS_SESSION_LOCK
                 THEN IF luHist = <<>> THEN <<"lock">> ELSE <<luHist[Len(luHist)], "lock">>
                 ELSE IF e.msg = WM_WTSSESSION_CHANGE /\ e.wparam = WTS_SESSION_UNLOCK
                 THEN IF luHist = <<>> THEN <<"unlock">> ELSE <<luHist[Len(luHist)], "unlock">>
                 ELSE luHist

\* PumpMessages delivers the WM_CLOSE that stop() posted
ReceiveClose ==
    /\ pc = "pump"
    /\ windowAlive
    /\ closePosted
    /\ closePosted' = FALSE
    /\ Enter(Event(WM_CLOSE, 0, 0))
    /\ UNCHANGED <<window_handle, windowAlive, nested, quit, locked, regLog, luHist>>
    /\ UNCHANGED pvars
    /\ UNCHANGED <<spin, earlyStop>>
    /\ UNCHANGED notListener

\* broadcasts posted to the queue of one listener
MaxPosts == 3

\* broadcasts the OS posts to the queue
QueuedBroadcasts ==
    { Event(WM_WTSSESSION_CHANGE, WTS_SESSION_LOCK, 1),
      Event(WM_WTSSESSION_CHANGE, WTS_SESSION_UNLOCK, 1) }

\* the OS posts broadcast e to the queue of the listener's window
Post(e) ==
    /\ windowAlive
    /\ nPosts < MaxPosts
    /\ nPosts' = nPosts + 1
    /\ inbox' = Append(inbox, [e |-> e, k |-> nPosts + 1])
    /\ UNCHANGED <<event_handlers, window_handle, windowAlive, pc, cur, tier, idx,
                   nested, quit, closePosted, locked, calls, regLog, regDuringDispatch,
                   luHist>>
    /\ UNCHANGED <<registered, spawned, startCalls, startError, stoppedStopFault,
                   curSeq, invLog>>
    /\ UNCHANGED <<spin, earlyStop>>
    /\ UNCHANGED notListener

\* a message loop that takes the newest message of the queue
NewestMessage(q) == Len(q)

\* the message PumpMessages (line 117) takes from the queue: the oldest
NextMessage(q) == 1

\* q without its i-th message
Without(q, i) == SubSeq(q, 1, i - 1) \o SubSeq(q, i + 1, Len(q))

\* PumpMessages takes a broadcast from the queue and calls the window procedure
GetMessage ==
    /\ pc = "pump"
    /\ windowAlive
    /\ ~quit
    /\ inbox # <<>>
    /\ LET i == NextMessage(inbox)
       IN  /\ Enter(inbox[i].e)
           /\ curSeq' = inbox[i].k
           /\ inbox' = Without(inbox, i)
    /\ UNCHANGED <<window_handle, windowAlive, nested, quit, closePosted, locked,
                   regLog, luHist>>
    /\ UNCHANGED <<registered, spawned, startCalls, startError, stoppedStopFault,
                   nPosts, invLog>>
    /\ UNCHANGED <<spin, earlyStop>>
    /\ UNCHANGED notListener

\* a dispatch that hands the handler the pattern of the running loop
HandlerArgPattern(msg, wparam, lparam, t) ==
    LET k == TierKey(msg, wparam, lparam, t)
    IN  Event(k[1], k[2], k[3])

\* the argument of the handler call in the t-th loop, lines 128, 130, 132, 134
HandlerArg(msg, wparam, lparam, t) == Event(msg, wparam, lparam)

\* on() calls made by handlers that the model adds to the registry.  A handler
\* that registers itself again after that leaves the lists as they are: the
\* last kept copy stands for the further ones, and a for-loop that has reached
\* that copy in the list it iterates stays on it (its index and the length of
\* the list would both grow by one).
MaxHandlerRegs == 1

HandlerRegs == Len(SelectSeq(regLog, LAMBDA r : r.by = "handler"))

\* one iteration of the running for-loop: handler(Event(msg, wparam, lparam)).
\* An exception of the handler leaves the loop: lines 125..140 hold no try.
\* The for-loop reads the list by index, so it also reaches entries appended
\* while it runs.
Invoke ==
    /\ pc = "dispatch"
    /\ idx <= Len(event_handlers[CurKey(tier)])
    /\ LET entry == event_handlers[CurKey(tier)][idx]
           arg == HandlerArg(cur.msg, cur.wparam, cur.lparam, tier)
           \* the handler calls on(): the list of the key grows by the handler
           grows == HandlerRegisters(entry.h) /\ HandlerRegs < MaxHandlerRegs
           \* the handler has appended itself behind the last kept entry of the
           \* list being iterated, and the loop goes on to that copy
           beyond == /\ HandlerRegisters(entry.h)
                     /\ HandlerRegs >= MaxHandlerRegs
                     /\ astuple(arg) = CurKey(tier)
                     /\ idx = Len(event_handlers[CurKey(tier)])
       IN  /\ locked' = LockedAfter(entry.h, locked)
           /\ calls' = IF beyond THEN calls
                        ELSE Append(calls, [h |-> entry.h, n |-> entry.n, event |-> arg])
           /\ IF grows
              THEN /\ event_handlers' = Registered(event_handlers, arg,
                                                   [h |-> entry.h, n |-> Len(regLog) + 1])
                   /\ regLog' = Append(regLog, [event |-> arg, h |-> entry.h,
                                                by |-> "handler"])
              ELSE UNCHANGED <<event_handlers, regLog>>
           /\ regDuringDispatch' = (regDuringDispatch \/ HandlerRegisters(entry.h))
           /\ IF HandlerRaises(entry.h)
              THEN /\ pc' = "raised"
                   /\ idx' = idx
                   /\ spin' = spin
              ELSE /\ pc' = pc
                   /\ idx' = IF beyond THEN idx ELSE idx + 1
                   /\ spin' = IF beyond THEN 1 - spin ELSE spin
    /\ invLog' = IF curSeq > 0 THEN Append(invLog, curSeq) ELSE invLog
    /\ UNCHANGED <<window_handle, windowAlive, cur, tier, nested, quit, closePosted,
                   luHist>>
    /\ UNCHANGED <<pOther, curSeq, earlyStop>>
    /\ UNCHANGED notListener

\* the exception leaves _window_procedure, skipping lines 129..140; the caller
\* of the window procedure reports it and the message loop goes on (for the
\* WM_DESTROY sent by DestroyWindow: DestroyWindow returns, and the outer
\* procedure returns 0)
Unwind ==
    /\ pc = "raised"
    /\ BackToPump
    /\ UNCHANGED <<event_handlers, window_handle, windowAlive, quit, closePosted,
                   locked, regLog, luHist>>
    /\ UNCHANGED <<pOther, invLog>>
    /\ UNCHANGED <<spin, earlyStop>>
    /\ UNCHANGED notListener

\* the running for-loop is exhausted: the next one looks its key up, and after
\* the fourth the procedure reaches line 136
NextTier ==
    /\ pc = "dispatch"
    /\ idx > Len(event_handlers[CurKey(tier)])
    /\ IF tier < 4
       THEN /\ tier' = tier + 1
            /\ idx' = 1
            /\ event_handlers' = Lookup(event_handlers, CurKey(tier + 1))
            /\ pc' = pc
       ELSE /\ pc' = "post"
            /\ UNCHANGED <<tier, idx, event_handlers>>
    /\ UNCHANGED <<window_handle, windowAlive, cur, nested, quit, closePosted, locked,
                   calls, regLog, regDuringDispatch, luHist>>
    /\ UNCHANGED pvars
    /\ UNCHANGED <<spin, earlyStop>>
    /\ UNCHANGED notListener

\* lines 136..140 for a message that is neither WM_CLOSE nor WM_DESTROY:
\* DefWindowProc, and the procedure returns
PostDefault ==
    /\ pc = "post"
    /\ cur.msg \notin {WM_CLOSE, WM_DESTROY}
    /\ BackToPump
    /\ UNCHANGED <<event_handlers, window_handle, windowAlive, quit, closePosted,
                   locked, regLog, luHist>>
    /\ UNCHANGED <<pOther, invLog>>
    /\ UNCHANGED <<spin, earlyStop>>
    /\ UNCHANGED notListener

\* lines 136..138 for WM_CLOSE: PostQuitMessage(0), then DestroyWindow(hwnd),
\* which destroys the window and calls the window procedure with WM_DESTROY
\* before it returns
PostClose ==
    /\ pc = "post"
    /\ cur.msg = WM_CLOSE
    /\ quit' = TRUE
    /\ windowAlive' = FALSE
    /\ nested' = TRUE
    /\ Enter(Event(WM_DESTROY, 0, 0))
    /\ UNCHANGED <<window_handle, closePosted, locked, regLog, luHist>>
    /\ UNCHANGED pvars
    /\ UNCHANGED <<spin, earlyStop>>
    /\ UNCHANGED notListener

\* lines 136..139 for the WM_DESTROY sent by DestroyWindow: PostQuitMessage(0),
\* DestroyWindow on the window that is being destroyed, return; the outer
\* DestroyWindow returns and the outer procedure returns 0
PostDestroy ==
    /\ pc = "post"
    /\ cur.msg = WM_DESTROY
    /\ quit' = TRUE
    /\ BackToPump
    /\ UNCHANGED <<event_handlers, window_handle, windowAlive, closePosted, locked,
                   regLog, luHist>>
    /\ UNCHANGED <<pOther, invLog>>
    /\ UNCHANGED <<spin, earlyStop>>
    /\ UNCHANGED notListener

\* PumpMessages returns on WM_QUIT; run() ends (lines 118..119)
Exit ==
    /\ pc = "pump"
    /\ quit
    /\ pc' = "exited"
    /\ UNCHANGED <<event_handlers, window_handle, windowAlive, cur, tier, idx, nested,
                   quit, closePosted, locked, calls, regLog, regDuringDispatch, luHist>>
    /\ UNCHANGED pvars
    /\ UNCHANGED <<spin, earlyStop>>
    /\ UNCHANGED notListener

-----------------------------------------------------------------------------
(* FreezeDetector: workstation.py lines 9..36.  Time is counted in sleeps   *)
(* of 0.1 s (line 31); gap is the time since last_time was taken and stops  *)
(* growing one past the threshold, where the comparison of line 34 no       *)
(* longer changes.                                                         *)

\* the constructor argument threshold, in sleeps
Threshold == 3

\* threads that call was_frozen()
NCallers == 2
Callers == 1..NCallers

\* time.sleep(0.1), line 31
SleepTicks == 1

\* a comparison that also counts a gap equal to the threshold
GapReaches(g) == g - Threshold >= 0

\* line 34: time.time() - self._threshold > last_time
GapExceeds(g) == g - Threshold > 0

InitFreezeIdle ==
    /\ fd_frozen = FALSE
    /\ fd_stop = FALSE
    /\ fd_pc = "sleep"
    /\ gap = 0
    /\ c_pc = [c \in Callers |-> "idle"]
    /\ c_tmp = [c \in Callers |-> FALSE]
    /\ unreported = FALSE
    /\ fresh = [c \in Callers |-> FALSE]
    /\ episode = <<>>
    /\ reported2 = FALSE
    /\ recorded = FALSE
    /\ stop_pc = "idle"
    /\ checkedGap = -1
    /\ recsRun = 0
    /\ callSince = FALSE

\* the clock advances by one sleep
Tick ==
    /\ gap <= Threshold
    /\ gap' = gap + 1
    /\ UNCHANGED <<fd_frozen, fd_stop, fd_pc, c_pc, c_tmp, unreported, fresh, episode,
                   reported2, recorded>>
    /\ UNCHANGED stop_pc
    /\ UNCHANGED fghost
    /\ UNCHANGED notFreeze

\* line 31 returns: the watchdog has slept at least 0.1 s
Wake ==
    /\ fd_pc = "sleep"
    /\ gap >= SleepTicks
    /\ fd_pc' = "check"
    /\ UNCHANGED <<fd_frozen, fd_stop, gap, c_pc, c_tmp, unreported, fresh, episode,
                   reported2, recorded>>
    /\ UNCHANGED stop_pc
    /\ UNCHANGED fghost
    /\ UNCHANGED notFreeze

\* lines 32..35: leave on _stop, else record a gap over the threshold
Check ==
    /\ fd_pc = "check"
    /\ IF fd_stop
       THEN /\ fd_pc' = "exited"
            /\ UNCHANGED <<fd_frozen, unreported, fresh, episode, recorded>>
            /\ UNCHANGED fghost
       ELSE /\ fd_pc' = "stamp"
            /\ checkedGap' = gap
            /\ IF GapExceeds(gap)
               THEN /\ fd_frozen' = TRUE
                    /\ unreported' = TRUE
                    /\ fresh' = [c \in Callers |-> FALSE]
                    /\ episode' = <<>>
                    /\ recorded' = TRUE
                    /\ recsRun' = IF callSince \/ recsRun = 0 THEN 1 ELSE 2
                    /\ callSince' = FALSE
               ELSE UNCHANGED <<fd_frozen, unreported, fresh, episode, recorded,
                                recsRun, callSince>>
    /\ UNCHANGED <<fd_stop, gap, c_pc, c_tmp, reported2>>
    /\ UNCHANGED stop_pc
    /\ UNCHANGED notFreeze

\* line 36: last_time = time.time()
Stamp ==
    /\ fd_pc = "stamp"
    /\ gap' = 0
    /\ fd_pc' = "sleep"
    /\ UNCHANGED <<fd_frozen, fd_stop, c_pc, c_tmp, unreported, fresh, episode,
                   reported2, recorded>>
    /\ UNCHANGED stop_pc
    /\ UNCHANGED fghost
    /\ UNCHANGED notFreeze

\* was_frozen(), line 20: _frozen = self._frozen
WasFrozenRead(c) ==
    /\ c_pc[c] = "idle"
    /\ c_tmp' = [c_tmp EXCEPT ![c] = fd_frozen]
    /\ c_pc' = [c_pc EXCEPT ![c] = "read"]
    /\ fresh' = [fresh EXCEPT ![c] =
                    recorded /\ \A d \in Callers : ~(c_pc[d] = "read" /\ fresh[d])]
    /\ callSince' = TRUE
    /\ UNCHANGED <<fd_frozen, fd_stop, fd_pc, gap, unreported, episode, reported2,
                   recorded, checkedGap, recsRun>>
    /\ UNCHANGED stop_pc
    /\ UNCHANGED notFreeze

\* the value was_frozen() returns, line 22
WasFrozenResult(tmp) == tmp

\* was_frozen(), lines 21..22: self._frozen = False; return _frozen
WasFrozenClear(c) ==
    /\ c_pc[c] = "read"
    /\ fd_frozen' = FALSE
    /\ c_pc' = [c_pc EXCEPT ![c] = "idle"]
    /\ LET r == WasFrozenResult(c_tmp[c])
       IN  /\ unreported' = (unreported /\ ~r)
           /\ reported2' = (reported2 \/ (r /\ ~unreported))
           /\ episode' = IF fresh[c] /\ Len(episode) < 2
                         THEN Append(episode, r) ELSE episode
    /\ UNCHANGED <<fd_stop, fd_pc, gap, c_tmp, fresh, recorded>>
    /\ UNCHANGED stop_pc
    /\ UNCHANGED fghost
    /\ UNCHANGED notFreeze

\* stop(), line 25: self._stop = True; the caller then waits in join()
FdStop ==
    /\ stop_pc = "idle"
    /\ fd_stop' = TRUE
    /\ stop_pc' = "joining"
    /\ UNCHANGED <<fd_frozen, fd_pc, gap, c_pc, c_tmp, unreported, fresh, episode,
                   reported2, recorded>>
    /\ UNCHANGED fghost
    /\ UNCHANGED notFreeze

\* The attribute _stop of lines 15 and 25 hides the method Thread._stop.
\* Where join() calls that method once the thread has ended (CPython up to
\* 3.12) it calls a bool and raises TypeError; where it does not, it returns.
JoinOutcomes == {"returned", "raised"}

\* stop(), line 26: self.join() ends once the watchdog thread has ended
FdJoin(outcome) ==
    /\ stop_pc = "joining"
    /\ fd_pc = "exited"
    /\ stop_pc' = outcome
    /\ UNCHANGED <<fd_frozen, fd_stop, fd_pc, gap, c_pc, c_tmp, unreported, fresh,
                   episode, reported2, recorded>>
    /\ UNCHANGED fghost
    /\ UNCHANGED notFreeze

-----------------------------------------------------------------------------
(* MachineStateScanner (machine_state_watcher.py) and watch_lock_unlock *)

\* session events handled in one behaviour
MaxEvents == 4

\* polling iterations counted per observed state
MaxPolls == 3

\* SessionEvent, lines 15..26
SESSION_LOGON == 5
SESSION_LOCK == 7
SESSION_UNLOCK == 8

SessionEvents == {SESSION_LOGON, SESSION_LOCK, SESSION_UNLOCK}

\* on_lock_func = None, on_lock_args = [], on_lock_kwargs = {} (lines 110..115)
NoFunc == "None"
NoArgs == <<>>
NoKwargs == {}

\* what a user passes to on_lock() / on_unlock()
Registrations ==
    { [func |-> "f", args |-> <<1>>, kwargs |-> {<<"k", 1>>}],
      [func |-> "g", args |-> <<2>>, kwargs |-> {}] }

\* pc_state.py, lines 111..116: __init__ creates neither on_lock_args nor
\* on_lock_kwargs (nor those of on_unlock); reading one raises AttributeError
UnsetArgs == <<-1>>
UnsetKwargs == {<<"unset", 0>>}

\* the two callback slots of a scanner
Slots == {"lock", "unlock"}

\* no on_lock() / on_unlock() call has been made yet
NoRegistration == [func |-> NoFunc, args |-> NoArgs, kwargs |-> NoKwargs]

\* what both __init__ methods share, and the state of the monitor's window
InitScannerState ==
    /\ ms_locked = FALSE
    /\ ms_unlocked = FALSE
    /\ on_lock_func = NoFunc
    /\ on_unlock_func = NoFunc
    /\ nChanges = 0
    /\ wm_fault = "none"
    /\ reg_r = [w \in Slots |-> NoRegistration]
    /\ reg_n = [w \in Slots |-> 0]
    /\ nEvents = 0
    /\ lockFlips = 0
    /\ unlockFlips = 0
    /\ h_pre = FALSE
    /\ evCalls = <<>>
    /\ evDup = FALSE
    /\ already_locked = FALSE
    /\ already_unlocked = FALSE
    /\ is_stopped = FALSE
    /\ pollLockCalls = 0
    /\ pollUnlockCalls = 0
    /\ lastFired = "none"
    /\ seen = "none"
    /\ firedSince = <<>>
    /\ pollsSince = 0
    /\ iterClean = FALSE
    /\ polledAfter = FALSE
    /\ w_exc = "none"

\* machine_state_watcher.py, lines 105..116
InitScannerFields ==
    /\ InitScannerState
    /\ guarded = TRUE
    /\ on_lock_args = NoArgs
    /\ on_lock_kwargs = NoKwargs
    /\ on_unlock_args = NoArgs
    /\ on_unlock_kwargs = NoKwargs

\* pc_state.py, lines 111..116
InitUnguardedFields ==
    /\ InitScannerState
    /\ guarded = FALSE
    /\ on_lock_args = UnsetArgs
    /\ on_lock_kwargs = UnsetKwargs
    /\ on_unlock_args = UnsetArgs
    /\ on_unlock_kwargs = UnsetKwargs

\* the callbacks given to watch_lock_unlock return
InitScannerIdle ==
    /\ InitScannerFields
    /\ cb_raising = {}

\* Thread.start() of the scanner
ms_start ==
    /\ h_pc = "created"
    /\ h_pc' = "start"
    /\ UNCHANGED <<ms_locked, ms_unlocked, on_lock_func, on_lock_args, on_lock_kwargs,
                   on_unlock_func, on_unlock_args, on_unlock_kwargs, nEvents,
                   lockFlips, unlockFlips, h_pre, evCalls, evDup, mon, regx>>
    /\ UNCHANGED <<wvars, notScanner>>

\* run(), lines 120..122: the monitor is created, handler() registered for ANY,
\* and the thread enters the message pump
ms_run ==
    /\ h_pc = "start"
    /\ h_pc' = "idle"
    /\ UNCHANGED <<ms_locked, ms_unlocked, on_lock_func, on_lock_args, on_lock_kwargs,
                   on_unlock_func, on_unlock_args, on_unlock_kwargs, nEvents,
                   lockFlips, unlockFlips, h_pre, evCalls, evDup, mon, regx>>
    /\ UNCHANGED <<wvars, notScanner>>

\* _t_lock is held by handler() between its first and its last statement
t_lock_free == h_pc \notin {"lock2", "unlock2"}

\* on_lock(), lines 131..136
ms_on_lock(r) ==
    /\ t_lock_free
    /\ on_lock_func' = r.func
    /\ on_lock_args' = r.args
    /\ on_lock_kwargs' = r.kwargs
    /\ UNCHANGED <<ms_locked, ms_unlocked, on_unlock_func, on_unlock_args,
                   on_unlock_kwargs, h_pc, nEvents, lockFlips, unlockFlips, h_pre,
                   evCalls, evDup, mon, regx>>
    /\ UNCHANGED <<wvars, notScanner>>

\* on_unlock(), lines 138..143
ms_on_unlock(r) ==
    /\ t_lock_free
    /\ on_unlock_func' = r.func
    /\ on_unlock_args' = r.args
    /\ on_unlock_kwargs' = r.kwargs
    /\ UNCHANGED <<ms_locked, ms_unlocked, on_lock_func, on_lock_args, on_lock_kwargs,
                   h_pc, nEvents, lockFlips, unlockFlips, h_pre, evCalls, evDup, mon, regx>>
    /\ UNCHANGED <<wvars, notScanner>>

\* the callback's arguments are read from attributes that may not exist
\* (pc_state.py, lines 136 and 141)
Unset(args, kwargs) == args = UnsetArgs \/ kwargs = UnsetKwargs

\* handler(), lines 147..149 and 153..154: take _t_lock and assign self.locked
handler(event) ==
    /\ h_pc = "idle"
    /\ nEvents < MaxEvents
    /\ nEvents' = nEvents + 1
    /\ nChanges' = nChanges + 1
    /\ wm_fault' = "none"
    /\ evCalls' = <<>>
    /\ IF event = SESSION_LOCK
       THEN /\ ms_locked' = TRUE
            /\ lockFlips' = IF ms_locked THEN lockFlips ELSE lockFlips + 1
            /\ h_pre' = ms_locked
            /\ h_pc' = "lock2"
       ELSE IF event = SESSION_UNLOCK
       THEN /\ ms_locked' = FALSE
            /\ h_pre' = ms_unlocked
            /\ h_pc' = "unlock2"
            /\ UNCHANGED lockFlips
       ELSE UNCHANGED <<ms_locked, lockFlips, h_pre, h_pc>>
    /\ iterClean' = FALSE
    /\ polledAfter' = FALSE
    /\ UNCHANGED <<ms_unlocked, on_lock_func, on_lock_args, on_lock_kwargs,
                   on_unlock_func, on_unlock_args, on_unlock_kwargs, unlockFlips, evDup>>
    /\ UNCHANGED regx
    /\ UNCHANGED <<w_pc, already_locked, already_unlocked, is_stopped, pollLockCalls,
                   pollUnlockCalls, lastFired, seen, firedSince, pollsSince>>
    /\ UNCHANGED wx
    /\ UNCHANGED notScanner

\* handler(), lines 150..152: self.unlocked = False, then the lock callback
handlerLock ==
    /\ h_pc = "lock2"
    /\ ms_unlocked' = FALSE
    /\ IF on_lock_func # NoFunc
       THEN IF Unset(on_lock_args, on_lock_kwargs)
            THEN /\ wm_fault' = "AttributeError"
                 /\ UNCHANGED <<evCalls, evDup>>
            ELSE /\ evCalls' = <<[func |-> on_lock_func, args |-> on_lock_args,
                                  kwargs |-> on_lock_kwargs]>>
                 /\ evDup' = (evDup \/ h_pre)
                 /\ UNCHANGED wm_fault
       ELSE UNCHANGED <<evCalls, evDup, wm_fault>>
    /\ UNCHANGED <<nChanges, regx>>
    /\ h_pre' = FALSE
    /\ h_pc' = "idle"
    /\ iterClean' = FALSE
    /\ polledAfter' = FALSE
    /\ UNCHANGED <<ms_locked, on_lock_func, on_lock_args, on_lock_kwargs,
                   on_unlock_func, on_unlock_args, on_unlock_kwargs, nEvents,
                   lockFlips, unlockFlips>>
    /\ UNCHANGED <<w_pc, already_locked, already_unlocked, is_stopped, pollLockCalls,
                   pollUnlockCalls, lastFired, seen, firedSince, pollsSince>>
    /\ UNCHANGED wx
    /\ UNCHANGED notScanner

\* handler(), lines 155..157: self.unlocked = True, then the unlock callback
handlerUnlock ==
    /\ h_pc = "unlock2"
    /\ ms_unlocked' = TRUE
    /\ unlockFlips' = IF ms_unlocked THEN unlockFlips ELSE unlockFlips + 1
    /\ IF on_unlock_func # NoFunc
       THEN IF Unset(on_unlock_args, on_unlock_kwargs)
            THEN /\ wm_fault' = "AttributeError"
                 /\ UNCHANGED <<evCalls, evDup>>
            ELSE /\ evCalls' = <<[func |-> on_unlock_func, args |-> on_unlock_args,
                                  kwargs |-> on_unlock_kwargs]>>
                 /\ evDup' = (evDup \/ h_pre)
                 /\ UNCHANGED wm_fault
       ELSE UNCHANGED <<evCalls, evDup, wm_fault>>
    /\ UNCHANGED <<nChanges, regx>>
    /\ h_pre' = FALSE
    /\ h_pc' = "idle"
    /\ iterClean' = FALSE
    /\ polledAfter' = FALSE
    /\ UNCHANGED <<ms_locked, on_lock_func, on_lock_args, on_lock_kwargs,
                   on_unlock_func, on_unlock_args, on_unlock_kwargs, nEvents, lockFlips>>
    /\ UNCHANGED <<w_pc, already_locked, already_unlocked, is_stopped, pollLockCalls,
                   pollUnlockCalls, lastFired, seen, firedSince, pollsSince>>
    /\ UNCHANGED wx
    /\ UNCHANGED notScanner

\* watch_lock_unlock, lines 180..181, with its naive variant that reports on
\* every sample
CallEverySample(flag, already) == flag

ShouldCall(flag, already) == flag /\ ~already

\* lines 184 and 189: the flag of the other state is reset, with the variant
\* that leaves it alone
KeepOther(already) == already

ResetOther(already) == FALSE

\* the iteration counter of an observed state, capped
CountPoll(n) == IF n < MaxPolls THEN n + 1 ELSE n

\* the polling loop observed state st, and invoked its callback iff fired
Observe(st, fired) ==
    /\ seen' = st
    /\ pollsSince' = IF seen = st THEN CountPoll(pollsSince) ELSE 1
    /\ firedSince' = LET old == IF seen = st THEN firedSince ELSE <<>>
                     IN  IF fired /\ Len(old) < 2 THEN Append(old, st) ELSE old
    /\ lastFired' = IF fired THEN st ELSE lastFired

\* thread.stop() of the StoppableThread passed to watch_lock_unlock
Cancel ==
    /\ w_pc \in {"check", "readLocked", "readUnlocked"}
    /\ ~is_stopped
    /\ is_stopped' = TRUE
    /\ UNCHANGED <<w_pc, already_locked, already_unlocked, pollLockCalls,
                   pollUnlockCalls, lastFired, seen, firedSince, pollsSince,
                   iterClean, polledAfter>>
    /\ UNCHANGED wx
    /\ UNCHANGED <<msvars, notScanner>>

\* an except clause that takes the cancellation only
CaughtIfStopped(exc) == exc = "Stopped"

\* line 191: except Exception catches what the loop raises, the "Stopped" of
\* line 178 and the exception of a callback alike
Caught(exc) == TRUE

\* where watch_lock_unlock goes on after exc was raised inside the loop: lines
\* 192..193 if the exception is caught, out of the function if it is not
AfterRaise(exc) == IF Caught(exc) THEN "stop" ELSE "raised"

\* lines 177..178: raise Exception("Stopped") if the thread is stopped
WatchCheck ==
    /\ w_pc = "check"
    /\ w_pc' = IF is_stopped THEN AfterRaise("Stopped") ELSE "readLocked"
    /\ w_exc' = IF is_stopped THEN "Stopped" ELSE w_exc
    /\ iterClean' = (~is_stopped /\ t_lock_free)
    /\ UNCHANGED <<already_locked, already_unlocked, is_stopped, pollLockCalls,
                   pollUnlockCalls, lastFired, seen, firedSince, pollsSince,
                   polledAfter, cb_raising>>
    /\ UNCHANGED <<msvars, notScanner>>

\* a read that takes the flag, as was_frozen() takes _frozen
FlagClearedByRead(flag) == FALSE

\* lines 180 and 185: ms.locked and ms.unlocked are read, not assigned
FlagAfterRead(flag) == flag

\* lines 180..184 (and the sleep of line 190 when ms.locked is true)
WatchReadLocked ==
    /\ w_pc = "readLocked"
    /\ IF ms_locked
       THEN /\ polledAfter' = iterClean
            /\ Observe("lock", ShouldCall(ms_locked, already_locked))
            /\ IF ShouldCall(ms_locked, already_locked)
               THEN /\ pollLockCalls' = pollLockCalls + 1
                    /\ IF "on_lock" \in cb_raising
                       THEN \* line 182 raises: lines 183..184 are not reached
                            /\ w_exc' = "callback"
                            /\ w_pc' = AfterRaise("callback")
                            /\ UNCHANGED <<already_locked, already_unlocked>>
                       ELSE /\ w_pc' = "check"
                            /\ already_locked' = TRUE
                            /\ already_unlocked' = ResetOther(already_unlocked)
                            /\ UNCHANGED w_exc
               ELSE /\ w_pc' = "check"
                    /\ UNCHANGED <<pollLockCalls, already_locked, already_unlocked,
                                   w_exc>>
       ELSE /\ w_pc' = "readUnlocked"
            /\ UNCHANGED <<polledAfter, seen, pollsSince, firedSince, lastFired,
                           pollLockCalls, already_locked, already_unlocked, w_exc>>
    /\ UNCHANGED <<is_stopped, pollUnlockCalls, iterClean, cb_raising>>
    /\ ms_locked' = FlagAfterRead(ms_locked)
    /\ UNCHANGED <<ms_unlocked, on_lock_func, on_lock_args, on_lock_kwargs, on_unlock_func,
                   on_unlock_args, on_unlock_kwargs, h_pc, nEvents, lockFlips,
                   unlockFlips, h_pre, evCalls, evDup, mon, regx>>
    /\ UNCHANGED notScanner

\* lines 185..190
WatchReadUnlocked ==
    /\ w_pc = "readUnlocked"
    /\ polledAfter' = iterClean
    /\ IF ms_unlocked
       THEN /\ Observe("unlock", ShouldCall(ms_unlocked, already_unlocked))
            /\ IF ShouldCall(ms_unlocked, already_unlocked)
               THEN /\ pollUnlockCalls' = pollUnlockCalls + 1
                    /\ IF "on_unlock" \in cb_raising
                       THEN \* line 187 raises: lines 188..189 are not reached
                            /\ w_exc' = "callback"
                            /\ w_pc' = AfterRaise("callback")
                            /\ UNCHANGED <<already_locked, already_unlocked>>
                       ELSE /\ w_pc' = "check"
                            /\ already_unlocked' = TRUE
                            /\ already_locked' = ResetOther(already_locked)
                            /\ UNCHANGED w_exc
               ELSE /\ w_pc' = "check"
                    /\ UNCHANGED <<pollUnlockCalls, already_locked, already_unlocked,
                                   w_exc>>
       ELSE /\ w_pc' = "check"
            /\ UNCHANGED <<seen, pollsSince, firedSince, lastFired, pollUnlockCalls,
                           already_locked, already_unlocked, w_exc>>
    /\ UNCHANGED <<is_stopped, pollLockCalls, iterClean, cb_raising>>
    /\ ms_unlocked' = FlagAfterRead(ms_unlocked)
    /\ UNCHANGED <<ms_locked, on_lock_func, on_lock_args, on_lock_kwargs, on_unlock_func,
                   on_unlock_args, on_unlock_kwargs, h_pc, nEvents, lockFlips,
                   unlockFlips, h_pre, evCalls, evDup, mon, regx>>
    /\ UNCHANGED notScanner

\* lines 191..193: ms.stop() (lines 124..129, which swallows every exception and
\* posts the quit message to the calling thread), then ms.join()
WatchStop ==
    /\ w_pc = "stop"
    /\ w_pc' = "join"
    /\ UNCHANGED <<already_locked, already_unlocked, is_stopped, pollLockCalls,
                   pollUnlockCalls, lastFired, seen, firedSince, pollsSince,
                   iterClean, polledAfter>>
    /\ UNCHANGED wx
    /\ UNCHANGED <<msvars, notScanner>>

-----------------------------------------------------------------------------
(* ListenerSpec: a bare WorkstationEventsListener and its user *)

InitListenerIdle ==
    /\ window_handle = 0
    /\ windowAlive = FALSE
    /\ cur = NoMessage
    /\ tier = 0
    /\ idx = 0
    /\ nested = FALSE
    /\ quit = FALSE
    /\ closePosted = FALSE
    /\ locked = FALSE
    /\ calls = <<>>
    /\ regDuringDispatch = FALSE
    /\ luHist = <<>>
    /\ registered = FALSE
    /\ inbox = <<>>
    /\ stoppedStopFault = "none"
    /\ nPosts = 0
    /\ curSeq = 0
    /\ invLog = <<>>
    /\ spin = 0
    /\ earlyStop = FALSE

ListenerInit ==
    /\ InitListenerIdle
    /\ InitFreezeIdle
    /\ InitScannerIdle
    /\ h_pc = "created"
    /\ w_pc = "none"
    /\ pc = "created"
    /\ spawned = 0
    /\ startCalls = 0
    /\ startError = "none"
    /\ regLog \in {<<>>, RecorderSetup}
    /\ event_handlers = RegistryOf(regLog)

\* The user calls start() once, and stop() at any time but between start()
\* and the creation of the window (StateSpec and PumpSpec cover that call).
ListenerNext ==
    \/ \E p \in RegPatterns, h \in UserHandlers : on(p, h)
    \/ pc = "created" /\ start
    \/ run
    \/ pc # "run" /\ stop
    \/ \E e \in Broadcasts : Receive(e)
    \/ ReceiveClose
    \/ Invoke
    \/ Unwind
    \/ NextTier
    \/ PostDefault
    \/ PostClose
    \/ PostDestroy
    \/ Exit

ListenerSpec == ListenerInit /\ [][ListenerNext]_vars

-----------------------------------------------------------------------------
(* StateSpec: a WorkstationState, whose constructor registers the two       *)
(* handlers and starts the listener (lines 152..160)                       *)

StateInit ==
    /\ InitListenerIdle
    /\ InitFreezeIdle
    /\ InitScannerIdle
    /\ h_pc = "created"
    /\ w_pc = "none"
    /\ pc = "run"
    /\ spawned = 1
    /\ startCalls = 1
    /\ startError = "none"
    /\ regLog = WorkstationStateSetup
    /\ event_handlers = RegistryOf(regLog)

\* stop_listener(), line 166
stop_listener == stop

StateNext ==
    \/ run
    \/ stop_listener
    \/ \E e \in WsBroadcasts : WsReceive(e)
    \/ ReceiveClose
    \/ Invoke
    \/ NextTier
    \/ PostDefault
    \/ PostClose
    \/ PostDestroy
    \/ Exit

StateSpec == StateInit /\ [][StateNext]_vars

\* the pump thread is scheduled: run() goes on to its message loop, the loop
\* handles what it has received, and a WM_CLOSE posted to the window is not
\* overtaken by broadcasts for ever; nothing obliges the user to call
\* stop_listener() or the OS to send a broadcast
StateFairness ==
    /\ WF_vars(run)
    /\ SF_vars(ReceiveClose)
    /\ WF_vars(Invoke)
    /\ WF_vars(NextTier)
    /\ WF_vars(PostDefault)
    /\ WF_vars(PostClose)
    /\ WF_vars(PostDestroy)
    /\ WF_vars(Exit)

StateFairSpec == StateSpec /\ StateFairness

-----------------------------------------------------------------------------
(* PumpSpec: the life cycle of a listener (start, failures of run, stop)    *)
(* and the queue of its window                                             *)

\* a recorder registered for every message and for locks; in this
\* specification every on() call precedes start()
PumpSetup ==
    << [event |-> AnyEvent, h |-> "h1", by |-> "setup"],
       [event |-> LockEvent, h |-> "h1", by |-> "setup"] >>

PumpInit ==
    /\ InitListenerIdle
    /\ InitFreezeIdle
    /\ InitScannerIdle
    /\ h_pc = "created"
    /\ w_pc = "none"
    /\ pc = "created"
    /\ spawned = 0
    /\ startCalls = 0
    /\ startError = "none"
    /\ regLog \in {<<>>, PumpSetup}
    /\ event_handlers = RegistryOf(regLog)

PumpNext ==
    \/ \E h \in UserHandlers : pc = "created" /\ on(AnyEvent, h)
    \/ start
    \/ run
    \/ \E step \in RunFailures : runFails(step)
    \/ stop
    \/ \E e \in QueuedBroadcasts : Post(e)
    \/ GetMessage
    \/ ReceiveClose
    \/ Invoke
    \/ Unwind
    \/ NextTier
    \/ PostDefault
    \/ PostClose
    \/ PostDestroy
    \/ Exit

PumpSpec == PumpInit /\ [][PumpNext]_vars

\* the pump thread is scheduled, and PumpMessages delivers what is queued
PumpFairness ==
    /\ WF_vars(GetMessage)
    /\ WF_vars(ReceiveClose)
    /\ WF_vars(Invoke)
    /\ WF_vars(Unwind)
    /\ WF_vars(NextTier)
    /\ WF_vars(PostDefault)
    /\ WF_vars(PostClose)
    /\ WF_vars(PostDestroy)
    /\ WF_vars(Exit)

PumpFairSpec == PumpSpec /\ PumpFairness

-----------------------------------------------------------------------------
(* ReentrantSpec: a listener whose registry is extended while it dispatches, *)
(* by another thread that calls on() and by the handler "again", which      *)
(* calls on() from inside the window procedure                             *)

ReentrantPatterns == { Event(WM_WTSSESSION_CHANGE, WTS_SESSION_LOCK, 1), AnyEvent }

ReentrantHandlers == {"h1", "again"}

\* registrations made before start(): one or two, "again" among them
ReentrantSetups ==
    { <<[event |-> p, h |-> "again", by |-> "setup"]>> : p \in ReentrantPatterns }
    \cup { <<[event |-> p, h |-> "h1", by |-> "setup"],
              [event |-> q, h |-> "again", by |-> "setup"]>> :
             p \in ReentrantPatterns, q \in ReentrantPatterns }
    \cup { <<[event |-> p, h |-> "again", by |-> "setup"],
              [event |-> q, h |-> "h1", by |-> "setup"]>> :
             p \in ReentrantPatterns, q \in ReentrantPatterns }

ReentrantBroadcasts ==
    { Event(WM_WTSSESSION_CHANGE, WTS_SESSION_LOCK, 1),
      Event(WM_WTSSESSION_CHANGE, WTS_SESSION_LOCK, 2) }

ReentrantInit ==
    /\ InitListenerIdle
    /\ InitFreezeIdle
    /\ InitScannerIdle
    /\ h_pc = "created"
    /\ w_pc = "none"
    /\ pc = "created"
    /\ spawned = 0
    /\ startCalls = 0
    /\ startError = "none"
    /\ regLog \in ReentrantSetups
    /\ event_handlers = RegistryOf(regLog)

ReentrantNext ==
    \/ \E p \in ReentrantPatterns : on(p, "h1")
    \/ pc = "created" /\ start
    \/ run
    \/ \E e \in ReentrantBroadcasts : Receive(e)
    \/ Invoke
    \/ NextTier
    \/ PostDefault

ReentrantSpec == ReentrantInit /\ [][ReentrantNext]_vars

\* the pump thread goes on running: a loop iteration, the next loop and the
\* return of the window procedure are taken when they can be
ReentrantFairness ==
    /\ WF_vars(Invoke)
    /\ WF_vars(NextTier)
    /\ WF_vars(PostDefault)

ReentrantFairSpec == ReentrantSpec /\ ReentrantFairness

-----------------------------------------------------------------------------
(* OddPatternSpec: a listener whose user registers patterns with an unset    *)
(* field before a set one                                                  *)

OddPatterns ==
    { Event(None, WTS_SESSION_LOCK, 1),
      Event(WM_WTSSESSION_CHANGE, None, 1),
      Event(None, None, 1),
      Event(None, WTS_SESSION_LOCK, None) }

OddPatternInit ==
    /\ InitListenerIdle
    /\ InitFreezeIdle
    /\ InitScannerIdle
    /\ h_pc = "created"
    /\ w_pc = "none"
    /\ pc = "created"
    /\ spawned = 0
    /\ startCalls = 0
    /\ startError = "none"
    /\ regLog \in {<<>>, RecorderSetup}
    /\ event_handlers = RegistryOf(regLog)

OddPatternNext ==
    \/ \E p \in OddPatterns : on(p, "h1")
    \/ pc = "created" /\ start
    \/ run
    \/ \E e \in Broadcasts : Receive(e)
    \/ Invoke
    \/ NextTier
    \/ PostDefault

OddPatternSpec == OddPatternInit /\ [][OddPatternNext]_vars

-----------------------------------------------------------------------------
(* FreezeSpec: a FreezeDetector, its watchdog thread and its callers *)

FreezeInit ==
    /\ InitFreezeIdle
    /\ InitListenerIdle
    /\ InitScannerIdle
    /\ h_pc = "created"
    /\ w_pc = "none"
    /\ pc = "created"
    /\ spawned = 0
    /\ startCalls = 0
    /\ startError = "none"
    /\ regLog = <<>>
    /\ event_handlers = EmptyDict

FreezeNext ==
    \/ Tick
    \/ Wake
    \/ Check
    \/ Stamp
    \/ \E c \in Callers : WasFrozenRead(c)
    \/ \E c \in Callers : WasFrozenClear(c)
    \/ FdStop
    \/ \E outcome \in JoinOutcomes : FdJoin(outcome)

FreezeSpec == FreezeInit /\ [][FreezeNext]_vars

\* WorkstationMonitor._window_procedure, lines 82..85: a WM_CLOSE that reaches
\* the monitor's window from outside this program destroys the window and
\* ends PumpMessages (line 72), and with it run() of the scanner thread
MonitorClosed ==
    /\ h_pc = "idle"
    /\ h_pc' = "exited"
    /\ UNCHANGED <<ms_locked, ms_unlocked, on_lock_func, on_lock_args, on_lock_kwargs,
                   on_unlock_func, on_unlock_args, on_unlock_kwargs, nEvents,
                   lockFlips, unlockFlips, h_pre, evCalls, evDup, mon, regx>>
    /\ UNCHANGED <<wvars, notScanner>>

\* line 193: ms.join() returns once the scanner thread has ended
WatchJoin ==
    /\ w_pc = "join"
    /\ h_pc = "exited"
    /\ w_pc' = "returned"
    /\ UNCHANGED <<already_locked, already_unlocked, is_stopped, pollLockCalls,
                   pollUnlockCalls, lastFired, seen, firedSince, pollsSince,
                   iterClean, polledAfter>>
    /\ UNCHANGED wx
    /\ UNCHANGED <<msvars, notScanner>>

-----------------------------------------------------------------------------
(* ScannerSpec: a MachineStateScanner used in event-driven mode *)

ScannerInit ==
    /\ InitListenerIdle
    /\ InitFreezeIdle
    /\ InitScannerIdle
    /\ pc = "created"
    /\ spawned = 0
    /\ startCalls = 0
    /\ startError = "none"
    /\ regLog = <<>>
    /\ event_handlers = EmptyDict
    /\ h_pc = "created"
    /\ w_pc = "none"

ScannerNext ==
    \/ ms_start
    \/ ms_run
    \/ \E r \in Registrations : ms_on_lock(r)
    \/ \E r \in Registrations : ms_on_unlock(r)
    \/ \E ev \in SessionEvents : handler(ev)
    \/ handlerLock
    \/ handlerUnlock

ScannerSpec == ScannerInit /\ [][ScannerNext]_vars

-----------------------------------------------------------------------------
(* WatchSpec: watch_lock_unlock after its lines 170..174, the scanner it     *)
(* started, and the thread that may stop it                                *)

WatchInit ==
    /\ InitListenerIdle
    /\ InitFreezeIdle
    /\ InitScannerIdle
    /\ pc = "created"
    /\ spawned = 0
    /\ startCalls = 0
    /\ startError = "none"
    /\ regLog = <<>>
    /\ event_handlers = EmptyDict
    /\ h_pc = "start"
    /\ w_pc = "check"

WatchNext ==
    \/ ms_run
    \/ \E ev \in SessionEvents : handler(ev)
    \/ handlerLock
    \/ handlerUnlock
    \/ Cancel
    \/ WatchCheck
    \/ WatchReadLocked
    \/ WatchReadUnlocked
    \/ WatchStop
    \/ MonitorClosed
    \/ WatchJoin

WatchSpec == WatchInit /\ [][WatchNext]_vars

\* both threads are scheduled; nothing obliges the environment to send
\* events, to cancel, or to close the monitor's window
WatchFairness ==
    /\ WF_vars(ms_run)
    /\ WF_vars(handlerLock)
    /\ WF_vars(handlerUnlock)
    /\ WF_vars(WatchCheck)
    /\ WF_vars(WatchReadLocked)
    /\ WF_vars(WatchReadUnlocked)
    /\ WF_vars(WatchStop)
    /\ WF_vars(WatchJoin)

WatchFairSpec == WatchSpec /\ WatchFairness

\* watch_lock_unlock called with callbacks of which at least one raises
RaisingCallbacks == {{"on_lock"}, {"on_unlock"}, {"on_lock", "on_unlock"}}

WatchRaiseInit ==
    /\ InitListenerIdle
    /\ InitFreezeIdle
    /\ InitScannerFields
    /\ cb_raising \in RaisingCallbacks
    /\ pc = "created"
    /\ spawned = 0
    /\ startCalls = 0
    /\ startError = "none"
    /\ regLog = <<>>
    /\ event_handlers = EmptyDict
    /\ h_pc = "start"
    /\ w_pc = "check"

WatchRaiseSpec == WatchRaiseInit /\ [][WatchNext]_vars

-----------------------------------------------------------------------------
(* ObserverSpec: a program that holds either a WorkstationState, whose       *)
(* listener it may stop, or a running watch_lock_unlock, on whose scanner   *)
(* on_lock() and on_unlock() may be called too                             *)

ObserverInit == StateInit \/ WatchInit

ObserverNext ==
    \/ StateNext
    \/ WatchNext
    \/ \E r \in Registrations : h_pc # "created" /\ ms_on_lock(r)
    \/ \E r \in Registrations : h_pc # "created" /\ ms_on_unlock(r)

ObserverSpec == ObserverInit /\ [][ObserverNext]_vars

-----------------------------------------------------------------------------
(* The matching rule the claims refer to: field-wise equality, an unset     *)
(* field of the pattern matching anything                                  *)

Matches(p, e) ==
    /\ p.msg = None \/ p.msg = e.msg
    /\ p.wparam = None \/ p.wparam = e.wparam
    /\ p.lparam = None \/ p.lparam = e.lparam

\* only trailing fields are unset
Canonical(p) ==
    /\ p.msg = None => p.wparam = None
    /\ p.wparam = None => p.lparam = None

\* 1 exact, 2 (msg, wparam, *), 3 (msg, *, *), 4 (*, *, *); 0 if p does not match e
Specificity(p, e) ==
    IF ~Matches(p, e) THEN 0
    ELSE IF p.lparam # None THEN 1
    ELSE IF p.wparam # None THEN 2
    ELSE IF p.msg # None THEN 3
    ELSE 4

\* how often the n-th on() call's handler has been invoked for cur
Invocations(n) == Cardinality({i \in 1..Len(calls) : calls[i].n = n})

-----------------------------------------------------------------------------
(* Claims about WorkstationState and WorkstationEventsListener *)

\* C1: whenever the listener of a WorkstationState is not inside its window
\* procedure (before any broadcast, and after each dispatched broadcast),
\* is_locked() is true iff the most recent lock/unlock broadcast was a lock.
C1_IsLockedFollowsLastBroadcast ==
    pc \in {"run", "pump", "exited"} =>
        (is_locked <=> (luHist # <<>> /\ luHist[Len(luHist)] = "lock"))

\* two consecutive lock broadcasts have been dispatched and is_locked() is true
C1_TwoLocksSeen ==
    /\ pc = "pump"
    /\ luHist = <<"lock", "lock">>
    /\ is_locked

\* C2: the handlers invoked for one broadcast run in the order of the tier of
\* the pattern they were registered under (exact, then (msg, wparam, *), then
\* (msg, *, *), then (*, *, *)) and, within a tier, in the order of their on()
\* calls.
C2_TierThenRegistrationOrder ==
    \A i, j \in 1..Len(calls) :
        i < j =>
            LET a == Specificity(regLog[calls[i].n].event, cur)
                b == Specificity(regLog[calls[j].n].event, cur)
            IN  \/ a < b
                \/ a = b /\ calls[i].n < calls[j].n

\* the four loops have finished for a broadcast that has handlers in all four
\* tiers, two of them in the same tier
C2_AllFourTiersRan ==
    /\ pc = "post"
    /\ Len(calls) = 5
    /\ {Specificity(regLog[calls[i].n].event, cur) : i \in 1..Len(calls)} = {1, 2, 3, 4}

\* C3: when the handler loops of a broadcast end, each on() registration under
\* a canonical pattern has been invoked exactly once if its pattern matches the
\* broadcast and not at all otherwise.
C3_MatchingInvokedExactlyOnce ==
    (pc \in {"post", "raised"} /\ ~regDuringDispatch) =>
        \A n \in 1..Len(regLog) :
            Canonical(regLog[n].event) =>
                Invocations(n) = IF Matches(regLog[n].event, cur) THEN 1 ELSE 0

\* C4: when a handler has raised, every registration matching the broadcast
\* has still been invoked for it.
C4_OthersStillInvoked ==
    (pc = "raised" /\ ~regDuringDispatch) =>
        \A n \in 1..Len(regLog) :
            Matches(regLog[n].event, cur) => Invocations(n) >= 1

\* C5: the exception of a handler does not leave the handler loops: after the
\* fault the window procedure goes on with its loops and its post-dispatch
\* processing (line 136).
C5_FaultStaysInProcedure ==
    [][pc = "raised" => pc' \in {"raised", "dispatch", "post"}]_vars

-----------------------------------------------------------------------------
(* Claims about FreezeDetector *)

\* C9: after the watchdog has recorded a gap (and recorded no further one),
\* the next call of was_frozen() returns true and the call following it
\* returns false.
C9_TrueThenFalse ==
    /\ Len(episode) >= 1 => episode[1] = TRUE
    /\ Len(episode) >= 2 => episode[2] = FALSE

\* C20: stop() never raises, and it has returned only if the watchdog thread
\* has ended.
C20_StopJoinsAndReturns ==
    /\ stop_pc # "raised"
    /\ stop_pc = "returned" => fd_pc = "exited"

\* C10: was_frozen() reads and clears the flag atomically: no call returns
\* true without a recorded gap that no earlier call has reported, and a
\* recorded gap that no call has reported is still in the flag whenever no
\* call is running.
C10_ReadAndClearAtomic ==
    /\ ~reported2
    /\ ((\A c \in Callers : c_pc[c] = "idle") /\ unreported) => fd_frozen

-----------------------------------------------------------------------------
(* Claims about MachineStateScanner and watch_lock_unlock *)

\* C6: in watch_lock_unlock, from the iteration that first observes a state
\* (locked or unlocked) and through every further iteration that observes the
\* same state, the callback of that state has been invoked exactly once and
\* the other callback not at all.
C6_OnceWhileStateObserved ==
    /\ seen = "lock" => firedSince = <<"lock">>
    /\ seen = "unlock" => firedSince = <<"unlock">>
    /\ seen = "none" => firedSince = <<>>

\* on_lock was invoked, and the unlock that followed has now been observed in
\* MaxPolls iterations
C6_UnlockSeenAcrossPolls ==
    /\ seen = "unlock"
    /\ pollsSince = MaxPolls
    /\ pollLockCalls = 1
    /\ pollUnlockCalls = 1

C13_CancelledWatchReturns == is_stopped ~> (w_pc = "returned")

\* C8: handler() invokes on_lock_func only for a lock event that found the
\* scanner not locked, and on_unlock_func only for an unlock event that found
\* it not unlocked.
C8_CallbackOncePerTransition == ~evDup

-----------------------------------------------------------------------------
(* Claims about the life cycle and the dispatch of WorkstationEventsListener *)

\* C11: once stop() has posted its WM_CLOSE to a listener whose pump thread
\* waits in PumpMessages, the pump thread eventually exits.
C11_StopEndsPump == (pc = "pump" /\ closePosted) ~> (pc = "exited")

\* C12: no stop() call made after the pump thread has exited raises or
\* reaches anything.
C12_StopOnStoppedIsNoOp == stoppedStopFault = "none"

\* C14: a start() call on a listener that has been started before raises and
\* changes neither the pump thread's position nor the number of threads
\* spawned; only the first start() spawns a thread.
C14_StartOnlyOnce ==
    [][startCalls' # startCalls =>
          IF pc = "created"
          THEN pc' = "run" /\ startError' = "none" /\ spawned' = 1
          ELSE startError' # "none" /\ pc' = pc /\ spawned' = spawned]_vars

\* start() was refused on a listener whose pump thread had exited after stop()
C14_RestartRefused ==
    /\ pc = "exited"
    /\ startError = "finished"
    /\ spawned = 1

\* C15: when an OS call of run() has failed, start() has raised to its caller
\* and the listener can still be started.
C15_RunFailureReported == pc = "failed" => (startError # "none" /\ CanStart(pc))

\* C16: no handler is invoked for a WM_CLOSE or WM_DESTROY.
C16_TeardownNotDispatched == cur.msg \in {WM_CLOSE, WM_DESTROY} => calls = <<>>

\* C17: when the pump thread has exited, the session-notification
\* registration that run() established has been undone.
C17_UnregisteredAtExit == pc = "exited" => ~registered

\* C18: every handler invoked for a broadcast was handed the broadcast itself,
\* with its three fields set.
C18_HandlerGetsConcreteEvent ==
    \A i \in 1..Len(calls) :
        /\ calls[i].event = cur
        /\ None \notin {calls[i].event.msg, calls[i].event.wparam, calls[i].event.lparam}

\* a handler registered under AnyEvent has been invoked for a lock of session 2
C18_AnyHandlerSawSession2 ==
    /\ pc = "post"
    /\ cur = Event(WM_WTSSESSION_CHANGE, WTS_SESSION_LOCK, 2)
    /\ \E i \in 1..Len(calls) : regLog[calls[i].n].event = AnyEvent

\* C19: the handler invocations made for queued broadcasts are grouped by
\* broadcast, in the order in which the broadcasts were posted.
C19_DispatchInArrivalOrder ==
    \A i, j \in 1..Len(invLog) : i < j => invLog[i] <= invLog[j]

\* the second broadcast is being dispatched after the first, both with
\* handler invocations, while a third waits in the queue
C19_SecondAfterFirst ==
    /\ pc = "dispatch"
    /\ curSeq = 2
    /\ inbox # <<>>
    /\ \E i, j \in 1..Len(invLog) : invLog[i] = 1 /\ invLog[j] = 2

-----------------------------------------------------------------------------
\* C21: a tick of the running watchdog sets the frozen flag iff the time since
\* the previous tick is strictly greater than the threshold (a gap equal to
\* the threshold leaves the flag as it was), and the tick then takes the
\* current time as the new heartbeat, so the next gap is counted from zero.
C21_FlagSetIffGapOverThreshold ==
    [][ /\ (fd_pc = "check" /\ fd_pc' = "stamp")
              => (fd_frozen' = (fd_frozen \/ gap > Threshold))
        /\ (fd_pc = "stamp" /\ fd_pc' = "sleep") => gap' = 0 ]_vars

\* the watchdog has compared a gap equal to the threshold and not set the flag
C21_GapEqualToThresholdIgnored ==
    /\ fd_pc = "stamp"
    /\ checkedGap = Threshold
    /\ ~recorded
    /\ ~fd_frozen

\* C22: a dispatch during which on() is called, by another thread or by a
\* handler it is running, terminates: the window procedure returns and the
\* pump thread is back in its message loop.
C22_DispatchWithOnTerminates == (pc = "dispatch") ~> (pc = "pump")

\* C23: the handler registry changes only when on() is called: a step that
\* registers nothing, such as the dispatch of a broadcast, leaves the registry
\* and its set of keys as they were.
C23_RegistryChangedOnlyByOn ==
    [][regLog' = regLog => event_handlers' = event_handlers]_vars

\* C24: in no state that another thread can observe (the polling loop of
\* watch_lock_unlock reads the two flags without taking _t_lock) are locked
\* and unlocked of the scanner both true.
C24_NeverLockedAndUnlocked == ~(ms_locked /\ ms_unlocked)

\* C25: when the handler loops of a broadcast end, a callable registered more
\* than once under one pattern matching the broadcast has been invoked once
\* for each of its registrations, the invocations standing in the order of
\* the registrations.
C25_DuplicatesInvokedEach ==
    (pc \in {"post", "raised"} /\ ~regDuringDispatch) =>
        \A n, m \in 1..Len(regLog) :
            ( /\ n < m
              /\ regLog[n].event = regLog[m].event
              /\ regLog[n].h = regLog[m].h
              /\ Canonical(regLog[n].event)
              /\ Matches(regLog[n].event, cur) ) =>
                /\ Invocations(n) = 1
                /\ Invocations(m) = 1
                /\ \A i, j \in 1..Len(calls) :
                       (calls[i].n = n /\ calls[j].n = m) => i < j

\* C26: once the watchdog has recorded two or more gaps in a row with no
\* was_frozen() call begun in between, the first call made after them returns
\* true and the call after that one returns false, unless a further gap is
\* recorded.
C26_FreezesCollapseIntoOneTrue ==
    recsRun = 2 =>
        /\ Len(episode) >= 1 => episode[1]
        /\ Len(episode) >= 2 => ~episode[2]

\* C27: once the listener of a WorkstationState has been stopped and its pump
\* thread has ended, is_locked() returns the value the flag had after the last
\* lock/unlock broadcast that was dispatched: true iff that one was a lock.
C27_LastValueAfterStop ==
    pc = "exited" =>
        (is_locked <=> (luHist # <<>> /\ luHist[Len(luHist)] = "lock"))

\* the listener was stopped while the workstation was locked, and is_locked()
\* still answers true
C27_StoppedWhileLocked ==
    /\ pc = "exited"
    /\ luHist # <<>>
    /\ luHist[Len(luHist)] = "lock"
    /\ is_locked

\* C28: locked and unlocked of the scanner change only in a step of handler()
\* on the scanner thread, and locked of WorkstationState only when the pump
\* thread invokes one of the two handlers of WorkstationState.__init__: the
\* polling loop, on_lock(), on_unlock(), is_locked() and stop() leave them as
\* they are.
C28_FlagsWrittenOnlyByHandlers ==
    [][ /\ (ms_locked' # ms_locked \/ ms_unlocked' # ms_unlocked) =>
              /\ h_pc \in {"idle", "lock2", "unlock2"}
              /\ h_pc' \in {"idle", "lock2", "unlock2"}
              /\ h_pc' # h_pc
              /\ UNCHANGED <<w_pc, on_lock_func, on_unlock_func>>
        /\ (locked' # locked) =>
              /\ pc = "dispatch"
              /\ Len(calls') = Len(calls) + 1
              /\ calls'[Len(calls')].h \in {"setLocked", "setUnlocked"}
              /\ UNCHANGED closePosted ]_vars

\* the scanner has handled a lock, and since then on_lock() has been called,
\* the polling loop has read the flags and invoked its callback, and the loop
\* has gone on to stop the scanner: locked is still true
C28_LockedKeptByTheOthers ==
    /\ ms_locked
    /\ ~ms_unlocked
    /\ on_lock_func # NoFunc
    /\ pollLockCalls >= 1
    /\ w_pc = "join"

\* C29: a stop() called after start() has returned and before the pump thread
\* has created its window takes effect: the pump thread eventually exits.
C29_EarlyStopTakesEffect == earlyStop ~> (pc = "exited")

\* C30: the callbacks of watch_lock_unlock alternate strictly: on_lock is not
\* invoked when the callback invoked last was on_lock, nor on_unlock when it
\* was on_unlock; and as long as the scanner has handled no lock and no unlock
\* event, no callback has been invoked.
C30_CallbacksAlternate ==
    /\ []((lockFlips = 0 /\ unlockFlips = 0) =>
              (pollLockCalls = 0 /\ pollUnlockCalls = 0 /\ lastFired = "none"))
    /\ [][ /\ pollLockCalls' # pollLockCalls =>
                 (lastFired # "lock" /\ lastFired' = "lock"
                    /\ pollUnlockCalls' = pollUnlockCalls)
           /\ pollUnlockCalls' # pollUnlockCalls =>
                 (lastFired # "unlock" /\ lastFired' = "unlock"
                    /\ pollLockCalls' = pollLockCalls) ]_vars

\* on_lock, on_unlock and on_lock again have been invoked, in that order
C30_LockUnlockLockReported ==
    /\ pollLockCalls = 2
    /\ pollUnlockCalls = 1
    /\ lastFired = "lock"

C32_CallbackFaultEndsWatch ==
    /\ [](w_pc # "raised")
    /\ [](w_exc = "callback" => w_pc \in {"stop", "join", "returned"})
    /\ [][ /\ w_exc # "none" => UNCHANGED <<pollLockCalls, pollUnlockCalls, lastFired>>
           /\ w_pc = "stop" => w_pc' \in {"stop", "join"} ]_vars

\* on_lock raised and ended the watch; the unlock that followed is not reported
C32_UnlockAfterFaultUnreported ==
    /\ w_exc = "callback"
    /\ w_pc = "join"
    /\ lastFired = "lock"
    /\ pollLockCalls = 1
    /\ pollUnlockCalls = 0
    /\ ~ms_locked
    /\ ms_unlocked
    /\ h_pc = "idle"

\* C33: on() accepts a pattern with an unset field before a set one (its
\* handler is appended to the registry under the pattern's key), and no
\* broadcast invokes a handler registered under such a pattern.
C33_OddPatternNeverInvoked ==
    /\ \A n \in 1..Len(regLog) :
           /\ astuple(regLog[n].event) \in DOMAIN event_handlers
           /\ \E i \in 1..Len(event_handlers[astuple(regLog[n].event)]) :
                  event_handlers[astuple(regLog[n].event)][i].n = n
    /\ \A i \in 1..Len(calls) : Canonical(regLog[calls[i].n].event)

\* the loops have ended for a broadcast that a registered pattern with an unset
\* middle field matches field by field: its handler was not invoked, the
\* handlers of the four canonical patterns were
C33_MatchingOddPatternSkipped ==
    /\ pc = "post"
    /\ Len(calls) = 4
    /\ \E n \in 1..Len(regLog) :
           /\ regLog[n].event = Event(WM_WTSSESSION_CHANGE, None, 1)
           /\ Matches(regLog[n].event, cur)
           /\ Invocations(n) = 0

\* C34: while the listener of a WorkstationState dispatches a message that is
\* neither a session lock nor a session unlock (a device change, a session
\* change with another subcode, WM_CLOSE, WM_DESTROY), the locked flag keeps
\* its value.
C34_OtherBroadcastKeepsLocked ==
    [][ ( /\ pc \in {"dispatch", "post"}
          /\ ~( /\ cur.msg = WM_WTSSESSION_CHANGE
                /\ cur.wparam \in {WTS_SESSION_LOCK, WTS_SESSION_UNLOCK} ) )
        => locked' = locked ]_vars

\* the loops have ended for a session logon received while the flag was true
C34_LogonWhileLocked ==
    /\ pc = "post"
    /\ cur = Event(WM_WTSSESSION_CHANGE, WTS_SESSION_LOGON, 1)
    /\ luHist # <<>>
    /\ luHist[Len(luHist)] = "lock"
    /\ locked

-----------------------------------------------------------------------------
(* MonitorSpec: the window procedure of WorkstationMonitor under session-   *)
(* change broadcasts of any subcode                                        *)

\* class SessionEvent, lines 15..26: the values that have a member
SessionEventValues == {0, WM_WTSSESSION_CHANGE} \cup (1..9)

\* subcodes Windows sends that SessionEvent does not list: WTS_SESSION_CREATE
\* (0xA) and WTS_SESSION_TERMINATE (0xB)
UnlistedSubcodes == {10, 11}

\* _window_procedure, lines 78..86, for msg = SessionEvent.CHANGE.value:
\* SessionEvent(wparam) is evaluated first; for a value without a member the
\* enum raises ValueError, so that neither _handle_session_change (lines
\* 88..93) nor DefWindowProc (line 86) is reached; the message pump goes on
MonitorChange(wparam) ==
    IF wparam \in SessionEventValues
    THEN handler(wparam)
    ELSE /\ h_pc = "idle"
         /\ nChanges < MaxEvents
         /\ nChanges' = nChanges + 1
         /\ wm_fault' = "ValueError"
         /\ UNCHANGED <<ms_locked, ms_unlocked, on_lock_func, on_lock_args,
                        on_lock_kwargs, on_unlock_func, on_unlock_args,
                        on_unlock_kwargs, h_pc, nEvents, lockFlips, unlockFlips,
                        h_pre, evCalls, evDup, regx>>
         /\ UNCHANGED <<wvars, notScanner>>

MonitorInit == ScannerInit

MonitorNext ==
    \/ ms_start
    \/ ms_run
    \/ \E r \in Registrations : ms_on_lock(r)
    \/ \E r \in Registrations : ms_on_unlock(r)
    \/ \E w \in SessionEvents \cup UnlistedSubcodes : MonitorChange(w)
    \/ handlerLock
    \/ handlerUnlock

MonitorSpec == MonitorInit /\ [][MonitorNext]_vars

\* C35: a session-change broadcast whose subcode has no SessionEvent member is
\* handled without error: the window procedure raises nothing, and once it has
\* returned, the handler registered for SessionEvent.ANY (the scanner's
\* handler()) has been invoked for every broadcast received
C35_UnlistedSubcodeHandled ==
    /\ wm_fault = "none"
    /\ h_pc = "idle" => nEvents = nChanges

-----------------------------------------------------------------------------
(* RegisterSpec: on_lock() / on_unlock() called on one thread while the     *)
(* scanner thread handles session events, for the scanner of                *)
(* machine_state_watcher.py and for the one of pc_state.py                  *)

\* pc_state.py, line 120: on_lock() assigns the function, holding no lock
pcs_on_lock_func(r) ==
    /\ ~guarded
    /\ reg_n["lock"] = 0
    /\ on_lock_func' = r.func
    /\ reg_r' = [reg_r EXCEPT !["lock"] = r]
    /\ reg_n' = [reg_n EXCEPT !["lock"] = 1]
    /\ UNCHANGED <<ms_locked, ms_unlocked, on_lock_args, on_lock_kwargs, on_unlock_func,
                   on_unlock_args, on_unlock_kwargs, h_pc, nEvents, lockFlips,
                   unlockFlips, h_pre, evCalls, evDup, mon, guarded>>
    /\ UNCHANGED <<wvars, notScanner>>

\* pc_state.py, line 121
pcs_on_lock_args ==
    /\ ~guarded
    /\ reg_n["lock"] = 1
    /\ on_lock_args' = reg_r["lock"].args
    /\ reg_n' = [reg_n EXCEPT !["lock"] = 2]
    /\ UNCHANGED <<ms_locked, ms_unlocked, on_lock_func, on_lock_kwargs, on_unlock_func,
                   on_unlock_args, on_unlock_kwargs, h_pc, nEvents, lockFlips,
                   unlockFlips, h_pre, evCalls, evDup, mon, guarded, reg_r>>
    /\ UNCHANGED <<wvars, notScanner>>

\* pc_state.py, line 122
pcs_on_lock_kwargs ==
    /\ ~guarded
    /\ reg_n["lock"] = 2
    /\ on_lock_kwargs' = reg_r["lock"].kwargs
    /\ reg_n' = [reg_n EXCEPT !["lock"] = 0]
    /\ UNCHANGED <<ms_locked, ms_unlocked, on_lock_func, on_lock_args, on_unlock_func,
                   on_unlock_args, on_unlock_kwargs, h_pc, nEvents, lockFlips,
                   unlockFlips, h_pre, evCalls, evDup, mon, guarded, reg_r>>
    /\ UNCHANGED <<wvars, notScanner>>

\* pc_state.py, line 126
pcs_on_unlock_func(r) ==
    /\ ~guarded
    /\ reg_n["unlock"] = 0
    /\ on_unlock_func' = r.func
    /\ reg_r' = [reg_r EXCEPT !["unlock"] = r]
    /\ reg_n' = [reg_n EXCEPT !["unlock"] = 1]
    /\ UNCHANGED <<ms_locked, ms_unlocked, on_lock_func, on_lock_args, on_lock_kwargs,
                   on_unlock_args, on_unlock_kwargs, h_pc, nEvents, lockFlips,
                   unlockFlips, h_pre, evCalls, evDup, mon, guarded>>
    /\ UNCHANGED <<wvars, notScanner>>

\* pc_state.py, line 127
pcs_on_unlock_args ==
    /\ ~guarded
    /\ reg_n["unlock"] = 1
    /\ on_unlock_args' = reg_r["unlock"].args
    /\ reg_n' = [reg_n EXCEPT !["unlock"] = 2]
    /\ UNCHANGED <<ms_locked, ms_unlocked, on_lock_func, on_lock_args, on_lock_kwargs,
                   on_unlock_func, on_unlock_kwargs, h_pc, nEvents, lockFlips,
                   unlockFlips, h_pre, evCalls, evDup, mon, guarded, reg_r>>
    /\ UNCHANGED <<wvars, notScanner>>

\* pc_state.py, line 128
pcs_on_unlock_kwargs ==
    /\ ~guarded
    /\ reg_n["unlock"] = 2
    /\ on_unlock_kwargs' = reg_r["unlock"].kwargs
    /\ reg_n' = [reg_n EXCEPT !["unlock"] = 0]
    /\ UNCHANGED <<ms_locked, ms_unlocked, on_lock_func, on_lock_args, on_lock_kwargs,
                   on_unlock_func, on_unlock_args, h_pc, nEvents, lockFlips,
                   unlockFlips, h_pre, evCalls, evDup, mon, guarded, reg_r>>
    /\ UNCHANGED <<wvars, notScanner>>

\* a scanner of either module, not started yet
RegisterInit ==
    /\ InitListenerIdle
    /\ InitFreezeIdle
    /\ InitScannerFields \/ InitUnguardedFields
    /\ cb_raising = {}
    /\ pc = "created"
    /\ spawned = 0
    /\ startCalls = 0
    /\ startError = "none"
    /\ regLog = <<>>
    /\ event_handlers = EmptyDict
    /\ h_pc = "created"
    /\ w_pc = "none"

RegisterNext ==
    \/ ms_start
    \/ ms_run
    \/ guarded /\ \E r \in Registrations : ms_on_lock(r)
    \/ guarded /\ \E r \in Registrations : ms_on_unlock(r)
    \/ \E r \in Registrations : pcs_on_lock_func(r)
    \/ pcs_on_lock_args
    \/ pcs_on_lock_kwargs
    \/ \E r \in Registrations : pcs_on_unlock_func(r)
    \/ pcs_on_unlock_args
    \/ pcs_on_unlock_kwargs
    \/ \E ev \in SessionEvents : handler(ev)
    \/ handlerLock
    \/ handlerUnlock

RegisterSpec == RegisterInit /\ [][RegisterNext]_vars

\* C36: every callback handler() invokes is called with the function, the
\* positional and the keyword arguments of one on_lock() / on_unlock()
\* registration, whichever of the two scanners is used
C36_CallUsesOneRegistration ==
    \A i \in DOMAIN evCalls : evCalls[i] \in Registrations

-----------------------------------------------------------------------------
(* FormSpec: on() called with an event class, with a default instance of    *)
(* the class, or with a plain Event that holds the same field values        *)

\* the dataclasses of lines 28..66
EventClasses == {"Event", "AnyEvent", "LockEvent", "UnlockEvent", "DeviceChangeEvent"}

\* the field defaults each class declares
DefaultsOf(cls) ==
    CASE cls = "Event" -> Event(0, 0, 0)
      [] cls = "AnyEvent" -> AnyEvent
      [] cls = "LockEvent" -> LockEvent
      [] cls = "UnlockEvent" -> UnlockEvent
      [] cls = "DeviceChangeEvent" -> DeviceChangeEvent

\* what on() may be given as its first argument: a class object, or an
\* instance of a class with its field values
ClassArg(cls) == [isclass |-> TRUE, cls |-> cls, fields |-> DefaultsOf(cls)]
InstanceArg(cls, e) == [isclass |-> FALSE, cls |-> cls, fields |-> e]

\* lines 144..145 with event = Event() in place of event = event()
InstantiatedAsBase(arg) ==
    IF arg.isclass THEN InstanceArg("Event", DefaultsOf("Event")) ELSE arg

\* on(), lines 144..145: if inspect.isclass(event): event = event()
Instantiated(arg) ==
    IF arg.isclass THEN InstanceArg(arg.cls, DefaultsOf(arg.cls)) ELSE arg

\* on(), lines 142..147, from the argument as the caller passes it: astuple
\* (line 147) reads the three fields of the instance and not its class
on_event(arg, h) == on(Instantiated(arg).fields, h)

\* the three ways of naming one pattern; the handler registered is named
\* after the way it was registered
Forms == {"class", "instance", "fields"}

FormArg(f, cls) ==
    CASE f = "class" -> ClassArg(cls)
      [] f = "instance" -> InstanceArg(cls, DefaultsOf(cls))
      [] f = "fields" -> InstanceArg("Event", DefaultsOf(cls))

FormInit ==
    /\ InitListenerIdle
    /\ InitFreezeIdle
    /\ InitScannerIdle
    /\ h_pc = "created"
    /\ w_pc = "none"
    /\ pc = "created"
    /\ spawned = 0
    /\ startCalls = 0
    /\ startError = "none"
    /\ regLog = <<>>
    /\ event_handlers = EmptyDict

FormNext == \E f \in Forms, cls \in EventClasses : on_event(FormArg(f, cls), f)

FormSpec == FormInit /\ [][FormNext]_vars

\* C37: on() called with an event class, with a default instance of that class
\* and with a plain Event holding the same three field values are one and the
\* same registration: each appends the handler to the same registry entry
C37_FormsRegisterAlike ==
    [][\A cls \in EventClasses, h \in Forms :
          /\ on_event(FormArg("class", cls), h) <=> on_event(FormArg("instance", cls), h)
          /\ on_event(FormArg("instance", cls), h) <=> on_event(FormArg("fields", cls), h)]_vars

\* on(LockEvent, h) and on(Event(0x2B1, 0x7, None), h') have been called, and h
\* and h' stand in the one entry of LockEvent's key
C37_ClassAndFieldsShareEntry ==
    /\ astuple(LockEvent) \in DOMAIN event_handlers
    /\ DOMAIN event_handlers = {astuple(LockEvent)}
    /\ \E i, j \in DOMAIN event_handlers[astuple(LockEvent)] :
          /\ event_handlers[astuple(LockEvent)][i].h = "class"
          /\ event_handlers[astuple(LockEvent)][j].h = "fields"

=============================================================================
